---------------------------- MODULE Spec2Model ----------------------------
(***************************************************************************)
(* Model of the cnc-calc backend: the tool store (ToolService), the rule   *)
(* based validator (ValidationService), the exporter (ExportService) and   *)
(* the request handlers of the tools router.                               *)
(*                                                                         *)
(* Numbers.  Geometry values are Python numbers.  A number x is modelled   *)
(* by the integer 1000 * x (thousandths of a millimetre or of a degree),   *)
(* so 0.01 is 10, 0.1 is 100, 25.4 is 25400.  Comparisons of the source    *)
(* that divide (diameter / 2, diameter / 4) are cross-multiplied.          *)
(*                                                                         *)
(* Values.  geometry is Dict[str, Any]: a key is absent, or holds None, a  *)
(* number, or anything else JSON can carry.  "str" stands for a non-empty  *)
(* string such as "6mm": truthy, and a TypeError when ordered against a    *)
(* number.                                                                 *)
(***************************************************************************)
EXTENDS Integers, Sequences, FiniteSets, TLC

VARIABLES
    tools,      \* table "tools": sequence of rows, row i has id i
    exports,    \* table "tool_exports": sequence of rows, row i has id i
    pending,    \* export requests between get_tool and export_tool
    resp,       \* the response of the handler that ran last
    now,        \* the clock read by datetime.utcnow()
    hist        \* history: the tool record each stored export was made from,
                \* as export_tool left it

vars == <<tools, exports, pending, resp, now, hist>>

-----------------------------------------------------------------------------
(* Python values held by geometry                                          *)

Absent == [kind |-> "absent", num |-> 0]
Null   == [kind |-> "null", num |-> 0]
Str    == [kind |-> "str", num |-> 0]
Num(n) == [kind |-> "num", num |-> n]

\* dict.get(key): None for a key that is absent
Get(g, f) == IF g[f].kind = "absent" THEN Null ELSE g[f]

\* dict.get(key, default)
GetDefault(g, f, default) == IF g[f].kind = "absent" THEN default ELSE g[f]

\* bool(v): None and 0 are falsy, a non-zero number and a non-empty string truthy
Truthy(v) == \/ v.kind = "num" /\ v.num # 0
             \/ v.kind = "str"

IsNone(v) == v.kind = "null"

\* v < n, v <= n, v > n with n a number: TypeError unless v is a number
Orders(v) == v.kind = "num"

-----------------------------------------------------------------------------
(* schemas/tool.py                                                         *)

END_MILL      == "end_mill"
BALL_END_MILL == "ball_end_mill"
CHAMFER       == "chamfer"
DRILL         == "drill"
REAMER        == "reamer"
THREAD_MILL   == "thread_mill"

ToolType == {END_MILL, BALL_END_MILL, CHAMFER, DRILL, REAMER, THREAD_MILL}

FUSION_JSON == "fusion_json"
CSV         == "csv"
ExportFormat == {FUSION_JSON, CSV}

METRIC   == "metric"
IMPERIAL == "imperial"
ExportUnits == {METRIC, IMPERIAL}

ValidationError(field, message, severity) ==
    [field |-> field, message |-> message, severity |-> severity]

ValidationResponse(is_valid, errors, warnings) ==
    [is_valid |-> is_valid, errors |-> errors, warnings |-> warnings]

\* ToolResponse.from_orm(row): the row without is_deleted
ToolResponse(row) ==
    [id |-> row.id, name |-> row.name, vendor |-> row.vendor, type |-> row.type,
     geometry |-> row.geometry, limits |-> row.limits,
     created_at |-> row.created_at, updated_at |-> row.updated_at]

-----------------------------------------------------------------------------
(* services/validation_service.py                                          *)
(*                                                                         *)
(* The rules append to two lists in program order.  A rule's condition     *)
(* evaluates to "hit" (the finding is appended), "miss", or "raise" (a     *)
(* TypeError leaves validate_tool at once: no verdict).                    *)

Acc0 == [errors |-> <<>>, warnings |-> <<>>, raised |-> FALSE]

Apply(acc, outcome, finding) ==
    IF acc.raised THEN acc
    ELSE IF outcome = "raise" THEN [acc EXCEPT !.raised = TRUE]
    ELSE IF outcome = "miss" THEN acc
    ELSE IF finding.severity = "error"
         THEN [acc EXCEPT !.errors = Append(@, finding)]
         ELSE [acc EXCEPT !.warnings = Append(@, finding)]

\* the slip "geometry.get(f) is None or geometry[f] < n": 0 passes
MutNotOrLe(v, n) ==
    IF IsNone(v) THEN "hit"
    ELSE IF ~Orders(v) THEN "raise"
    ELSE IF v.num < n THEN "hit" ELSE "miss"

\* not geometry.get(f) or geometry[f] <= n
NotOrLe(v, n) ==
    IF ~Truthy(v) THEN "hit"
    ELSE IF ~Orders(v) THEN "raise"
    ELSE IF v.num <= n THEN "hit" ELSE "miss"

\* not geometry.get(f) or geometry[f] < n
NotOrLt(v, n) ==
    IF ~Truthy(v) THEN "hit"
    ELSE IF ~Orders(v) THEN "raise"
    ELSE IF v.num < n THEN "hit" ELSE "miss"

\* geometry.get(f) is None or geometry[f] < n
NoneOrLt(v, n) ==
    IF IsNone(v) THEN "hit"
    ELSE IF ~Orders(v) THEN "raise"
    ELSE IF v.num < n THEN "hit" ELSE "miss"

\* the slip "geometry[f] <= lo or geometry[f] >= hi": the ends are outside
MutTruthyOutside(v, lo, hi) ==
    IF ~Truthy(v) THEN "miss"
    ELSE IF ~Orders(v) THEN "raise"
    ELSE IF v.num <= lo \/ v.num >= hi THEN "hit" ELSE "miss"

\* if geometry.get(f): if geometry[f] < lo or geometry[f] > hi
TruthyOutside(v, lo, hi) ==
    IF ~Truthy(v) THEN "miss"
    ELSE IF ~Orders(v) THEN "raise"
    ELSE IF v.num < lo \/ v.num > hi THEN "hit" ELSE "miss"

\* if geometry.get(a) and geometry.get(b): if ka * geometry[a] REL kb * geometry[b]
\* rel is "ge", "lt" or "gt"
TruthyBoth(a, b, ka, kb, rel) ==
    IF ~(Truthy(a) /\ Truthy(b)) THEN "miss"
    ELSE IF ~(Orders(a) /\ Orders(b)) THEN "raise"
    ELSE IF \/ rel = "ge" /\ ka * a.num >= kb * b.num
            \/ rel = "lt" /\ ka * a.num <  kb * b.num
            \/ rel = "gt" /\ ka * a.num >  kb * b.num
         THEN "hit" ELSE "miss"

\* the slip "elif" on the overall_length rule: skipped after a flute_length error
MutValidateBasicFields(tool, acc) ==
    LET g  == tool.geometry
        a1 == Apply(acc, NotOrLe(Get(g, "diameter"), 0),
                    ValidationError("diameter", "Diameter must be greater than 0", "error"))
        a2 == Apply(a1, NotOrLe(Get(g, "flute_length"), 0),
                    ValidationError("flute_length", "Flute length must be greater than 0", "error"))
        a3 == IF Len(a2.errors) > Len(a1.errors) THEN a2
              ELSE Apply(a2, NotOrLe(Get(g, "overall_length"), 0),
                    ValidationError("overall_length", "Overall length must be greater than 0", "error"))
    IN  Apply(a3, TruthyBoth(Get(g, "flute_length"), Get(g, "overall_length"), 1, 1, "ge"),
              ValidationError("flute_length", "Flute length must be less than overall length", "error"))

ValidateBasicFields(tool, acc) ==
    LET g  == tool.geometry
        a1 == Apply(acc, NotOrLe(Get(g, "diameter"), 0),
                    ValidationError("diameter", "Diameter must be greater than 0", "error"))
        a2 == Apply(a1, NotOrLe(Get(g, "flute_length"), 0),
                    ValidationError("flute_length", "Flute length must be greater than 0", "error"))
        a3 == Apply(a2, NotOrLe(Get(g, "overall_length"), 0),
                    ValidationError("overall_length", "Overall length must be greater than 0", "error"))
    IN  Apply(a3, TruthyBoth(Get(g, "flute_length"), Get(g, "overall_length"), 1, 1, "ge"),
              ValidationError("flute_length", "Flute length must be less than overall length", "error"))

ValidateEndMill(tool, acc) ==
    LET g  == tool.geometry
        a1 == Apply(acc, NotOrLt(Get(g, "flute_count"), 1000),
                    ValidationError("flute_count", "Flute count must be at least 1", "error"))
        a2 == Apply(a1, NotOrLt(Get(g, "helix_angle"), 0),
                    ValidationError("helix_angle", "Helix angle must be non-negative", "error"))
        a3 == Apply(a2, NotOrLe(Get(g, "length_of_cut"), 0),
                    ValidationError("length_of_cut", "Length of cut must be greater than 0", "error"))
        a4 == Apply(a3, TruthyBoth(Get(g, "flute_length"), Get(g, "length_of_cut"), 1, 1, "lt"),
                    ValidationError("length_of_cut", "Length of cut cannot exceed flute length", "error"))
        a5 == Apply(a4, TruthyOutside(Get(g, "helix_angle"), 20000, 45000),
                    ValidationError("helix_angle", "Unusual helix angle - typical range is 20-45 degrees", "warning"))
    IN  \* corner_radius > diameter / 4
        Apply(a5, TruthyBoth(Get(g, "corner_radius"), Get(g, "diameter"), 4, 1, "gt"),
              ValidationError("corner_radius", "Large corner radius may affect cutting performance", "warning"))

\* abs(tip_radius - diameter / 2) > 0.01.  The subtraction is a floating
\* point one: when the exact difference is 0.01 the computed one falls on
\* either side of the literal 0.01 (3.01 - 3.0 is below it, 1.01 - 1.0 is
\* above it); fp is the side it falls on.
BallNoseMismatch(tip_radius, diameter, fp) ==
    LET d2 == 2 * tip_radius - diameter
        ad == IF d2 < 0 THEN -d2 ELSE d2
    IN  IF ad = 2 * 10 THEN fp ELSE ad > 2 * 10

ValidateBallEndMill(tool, acc, fp) ==
    LET g  == tool.geometry
        d  == Get(g, "diameter")
        r  == Get(g, "tip_radius")
        a1 == Apply(acc, NotOrLt(Get(g, "flute_count"), 1000),
                    ValidationError("flute_count", "Flute count must be at least 1", "error"))
        a2 == Apply(a1, NotOrLe(r, 0),
                    ValidationError("tip_radius", "Tip radius must be greater than 0", "error"))
    IN  Apply(a2,
              IF ~(Truthy(d) /\ Truthy(r)) THEN "miss"
              ELSE IF ~(Orders(d) /\ Orders(r)) THEN "raise"
              ELSE IF BallNoseMismatch(r.num, d.num, fp) THEN "hit" ELSE "miss",
              ValidationError("tip_radius", "Tip radius must equal half the diameter for ball end mills", "error"))

ValidateChamfer(tool, acc) ==
    LET g  == tool.geometry
        a1 == Apply(acc, NotOrLe(Get(g, "included_angle"), 0),
                    ValidationError("included_angle", "Included angle is required and must be greater than 0", "error"))
        a2 == Apply(a1, NoneOrLt(Get(g, "tip_flat"), 0),
                    ValidationError("tip_flat", "Tip flat is required", "error"))
        a3 == Apply(a2, NotOrLe(Get(g, "shank_diameter"), 0),
                    ValidationError("shank_diameter", "Shank diameter must be greater than 0", "error"))
        v  == Get(g, "tip_flat")
    IN  \* geometry.get("tip_flat") and geometry["tip_flat"] < 0.1
        Apply(a3,
              IF ~Truthy(v) THEN "miss"
              ELSE IF ~Orders(v) THEN "raise"
              ELSE IF v.num < 100 THEN "hit" ELSE "miss",
              ValidationError("tip_flat", "Very small tip flat may be difficult to manufacture", "warning"))

ValidateDrill(tool, acc) ==
    LET g  == tool.geometry
        a1 == Apply(acc, NotOrLe(Get(g, "point_angle"), 0),
                    ValidationError("point_angle", "Point angle must be greater than 0", "error"))
    IN  Apply(a1, TruthyOutside(Get(g, "point_angle"), 90000, 150000),
              ValidationError("point_angle", "Unusual point angle - typical range is 90-150 degrees", "warning"))

ValidateReamer(tool, acc) ==
    LET v == Get(tool.geometry, "lead_angle")
    IN  \* if geometry.get("lead_angle") is not None: if < 0 or > 90
        Apply(acc,
              IF IsNone(v) THEN "miss"
              ELSE IF ~Orders(v) THEN "raise"
              ELSE IF v.num < 0 \/ v.num > 90000 THEN "hit" ELSE "miss",
              ValidationError("lead_angle", "Lead angle should be between 0 and 90 degrees", "warning"))

ValidateThreadMill(tool, acc) ==
    LET g  == tool.geometry
        a1 == Apply(acc, NotOrLe(Get(g, "pitch"), 0),
                    ValidationError("pitch", "Pitch must be greater than 0", "error"))
        a2 == Apply(a1, NotOrLe(Get(g, "max_thread_length"), 0),
                    ValidationError("max_thread_length", "Maximum thread length must be greater than 0", "error"))
    IN  Apply(a2, TruthyBoth(Get(g, "max_thread_length"), Get(g, "flute_length"), 1, 1, "gt"),
              ValidationError("max_thread_length", "Maximum thread length should not exceed flute length", "warning"))

ValidateFusionCompatibility(tool, acc) ==
    LET g  == tool.geometry
        a1 == Apply(acc, IF tool.type \notin ToolType THEN "hit" ELSE "miss",
                    ValidationError("type", "Tool type is not supported by Fusion 360", "error"))
        a2 == Apply(a1, TruthyOutside(Get(g, "diameter"), 100, 100000),
                    ValidationError("diameter", "Diameter outside typical range (0.1-100mm)", "warning"))
    IN  Apply(a2, TruthyOutside(Get(g, "overall_length"), 1000, 500000),
              ValidationError("overall_length", "Overall length outside typical range (1-500mm)", "warning"))

\* the slip "if" for "elif": a drill falls through to the ball end mill rules
MutValidateByType(tool, acc, fp) ==
    IF tool.type = END_MILL THEN ValidateEndMill(tool, acc)
    ELSE IF tool.type = BALL_END_MILL THEN ValidateBallEndMill(tool, acc, fp)
    ELSE IF tool.type = CHAMFER THEN ValidateChamfer(tool, acc)
    ELSE IF tool.type = DRILL THEN ValidateBallEndMill(tool, ValidateDrill(tool, acc), fp)
    ELSE IF tool.type = REAMER THEN ValidateReamer(tool, acc)
    ELSE IF tool.type = THREAD_MILL THEN ValidateThreadMill(tool, acc)
    ELSE acc

\* the if / elif chain of validate_tool
ValidateByType(tool, acc, fp) ==
    IF tool.type = END_MILL THEN ValidateEndMill(tool, acc)
    ELSE IF tool.type = BALL_END_MILL THEN ValidateBallEndMill(tool, acc, fp)
    ELSE IF tool.type = CHAMFER THEN ValidateChamfer(tool, acc)
    ELSE IF tool.type = DRILL THEN ValidateDrill(tool, acc)
    ELSE IF tool.type = REAMER THEN ValidateReamer(tool, acc)
    ELSE IF tool.type = THREAD_MILL THEN ValidateThreadMill(tool, acc)
    ELSE acc

\* the slip "is_valid = len(errors) == 0 and len(warnings) == 0"
MutValidateTool(tool, fp) ==
    LET a1 == ValidateBasicFields(tool, Acc0)
        a2 == ValidateByType(tool, a1, fp)
        a3 == ValidateFusionCompatibility(tool, a2)
    IN  IF a3.raised
        THEN [raised |-> TRUE, is_valid |-> FALSE, errors |-> <<>>, warnings |-> <<>>]
        ELSE [raised |-> FALSE, is_valid |-> Len(a3.errors) = 0 /\ Len(a3.warnings) = 0,
              errors |-> a3.errors, warnings |-> a3.warnings]

\* the slip "the compatibility checks run before the rules of the type"
MutStageOrder(tool, fp) ==
    LET a1 == ValidateBasicFields(tool, Acc0)
        a2 == ValidateFusionCompatibility(tool, a1)
        a3 == ValidateByType(tool, a2, fp)
    IN  IF a3.raised
        THEN [raised |-> TRUE, is_valid |-> FALSE, errors |-> <<>>, warnings |-> <<>>]
        ELSE [raised |-> FALSE, is_valid |-> Len(a3.errors) = 0,
              errors |-> a3.errors, warnings |-> a3.warnings]

\* validate_tool: what it returns, or that it raised
ValidateTool(tool, fp) ==
    LET a1 == ValidateBasicFields(tool, Acc0)
        a2 == ValidateByType(tool, a1, fp)
        a3 == ValidateFusionCompatibility(tool, a2)
    IN  IF a3.raised
        THEN [raised |-> TRUE, is_valid |-> FALSE, errors |-> <<>>, warnings |-> <<>>]
        ELSE [raised |-> FALSE, is_valid |-> Len(a3.errors) = 0,
              errors |-> a3.errors, warnings |-> a3.warnings]

-----------------------------------------------------------------------------
(* Text.  A cell is a piece of output text: what it reads, how many         *)
(* characters it has (what len() counts) and how many bytes it encodes to.  *)
(* A name is [s, wide]: an ASCII rendering in which "#" stands for one      *)
(* character outside ASCII, and the number of such characters.              *)

Cell(text, chars, bytes) == [text |-> text, chars |-> chars, bytes |-> bytes]

Ascii(text) == Cell(text, Len(text), Len(text))

RECURSIVE Pad(_, _)
\* k written with at least width digits
Pad(k, width) ==
    IF Len(ToString(k)) >= width THEN ToString(k)
    ELSE "0" \o Pad(k, width - 1)

RECURSIVE FracText(_, _)
\* the digits after the point: r of width digits, trailing zeros dropped
FracText(r, width) ==
    IF width = 1 THEN ToString(r)
    ELSE IF r % 10 = 0 THEN FracText(r \div 10, width - 1)
    ELSE Pad(r, width)

\* repr(float) of n / 10^width, width 3 or 4
FloatRepr(n, width) ==
    LET unit == IF width = 3 THEN 1000 ELSE 10000
        a    == IF n < 0 THEN -n ELSE n
    IN  (IF n < 0 THEN "-" ELSE "") \o ToString(a \div unit) \o "."
            \o FracText(a % unit, width)

\* Values of a converted geometry and of the export dicts: besides the
\* stored kinds, "inch" (ten-thousandths of an inch, from round(x / 25.4, 4)),
\* "int" (a default written in the source: 0, 2, 30, 90, 118) and "empty"
\* (the "" default of the CSV row).
Inch(m)    == [kind |-> "inch", num |-> m]
IntLit(k)  == [kind |-> "int", num |-> k]
EmptyText  == [kind |-> "empty", num |-> 0]

\* the text of a number
NumberText(v) ==
    IF v.kind = "num" THEN FloatRepr(v.num, 3)
    ELSE IF v.kind = "inch" THEN FloatRepr(v.num, 4)
    ELSE ToString(v.num)

\* json.dumps of one value (ensure_ascii: a character outside ASCII is
\* written as a six character \uXXXX escape)
JsonValue(v) ==
    IF v.kind = "null" THEN Ascii("null")
    ELSE IF v.kind = "str" THEN Ascii("\"6mm\"")
    ELSE Ascii(NumberText(v))

JsonString(name) ==
    LET n == Len(name.s) + 2 + 5 * name.wide
    IN  Cell("\"" \o name.s \o "\"", n, n)

\* the slip "str(value)": None is written as the text None
MutCsvValue(v) ==
    IF v.kind = "empty" THEN Ascii("")
    ELSE IF v.kind = "null" THEN Ascii("None")
    ELSE IF v.kind = "str" THEN Ascii("6mm")
    ELSE Ascii(NumberText(v))

\* csv.writer of one field: None is written as the empty string
CsvValue(v) ==
    IF v.kind \in {"null", "empty"} THEN Ascii("")
    ELSE IF v.kind = "str" THEN Ascii("6mm")
    ELSE Ascii(NumberText(v))

CsvString(name) == Cell(name.s, Len(name.s), Len(name.s) + name.wide)

RECURSIVE SumChars(_)
SumChars(cells) ==
    IF cells = <<>> THEN 0 ELSE Head(cells).chars + SumChars(Tail(cells))

RECURSIVE TextLen(_, _)
\* len() of the text laid out from rows of cells.
\* json.dumps(indent = 2): "{" and a line break, then per item two spaces,
\* the quoted key, ": ", the value and either "," and a line break or a
\* line break and "}".
\* csv.writer: cells joined by "," and each row ended by "\r\n".
TextLen(layout, rows) ==
    IF rows = <<>> THEN (IF layout = FUSION_JSON THEN 2 ELSE 0)
    ELSE LET row == Head(rows)
         IN  (IF layout = FUSION_JSON
              THEN 2 + (row[1].chars + 2) + 2 + row[2].chars + 2
              ELSE SumChars(row) + (Len(row) - 1) + 2)
             + TextLen(layout, Tail(rows))

-----------------------------------------------------------------------------
(* services/export_service.py                                              *)

mm_fields ==
    <<"diameter", "flute_length", "overall_length", "length_of_cut",
      "corner_radius", "tip_radius", "tip_flat", "shank_diameter",
      "pitch", "max_thread_length">>

InSeq(x, s) == \E i \in 1..Len(s) : s[i] = x

\* the slip "math.floor(x / 25.4 * 10000) / 10000": cut off, not rounded
MutRoundInch(n) == (50 * n) \div 127

\* round(x / 25.4, 4) of x = n / 1000, in ten-thousandths: n * 10000 / 25400
\* to the nearest integer (100 n = 127 (2 k + 1) has no solution: no ties)
RoundInch(n) == (2 * (50 * n) + 127) \div (2 * 127)

\* the slip "converted = geometry": the caller's dict is converted in place
MutConvertToImperial(geometry) ==
    LET converted == [f \in DOMAIN geometry |->
                        IF InSeq(f, mm_fields) /\ geometry[f].kind = "num"
                        THEN Inch(RoundInch(geometry[f].num))
                        ELSE geometry[f]]
    IN  [raised   |-> \E i \in 1..Len(mm_fields) : geometry[mm_fields[i]].kind = "str",
         geometry |-> converted,
         argument |-> converted]

\* _convert_to_imperial: the converted copy, or raised (a TypeError from
\* "6mm" / 25.4); argument is the dict passed in as the call leaves it
\* (converted = geometry.copy(): it is not written to)
ConvertToImperial(geometry) ==
    [raised   |-> \E i \in 1..Len(mm_fields) : geometry[mm_fields[i]].kind = "str",
     geometry |-> [f \in DOMAIN geometry |->
                     IF InSeq(f, mm_fields) /\ geometry[f].kind = "num"
                     THEN Inch(RoundInch(geometry[f].num))
                     ELSE geometry[f]],
     argument |-> geometry]

MapToolTypeToFusion(tool_type) ==
    IF tool_type = END_MILL THEN "End Mill"
    ELSE IF tool_type = BALL_END_MILL THEN "Ball End Mill"
    ELSE IF tool_type = CHAMFER THEN "Chamfer Mill"
    ELSE IF tool_type = DRILL THEN "Drill"
    ELSE IF tool_type = REAMER THEN "Reamer"
    ELSE IF tool_type = THREAD_MILL THEN "Thread Mill"
    ELSE tool_type

UnitsText(units) == IF units = IMPERIAL THEN "in" ELSE "mm"

\* the geometry both generators work on: geometry = tool.geometry.copy(),
\* converted for imperial.  source is tool.geometry as the generator leaves
\* it: the conversion is handed the copy, tool.geometry itself is only read.
ExportGeometry(tool, units) ==
    LET copy == tool.geometry
        c    == ConvertToImperial(copy)
    IN  IF units = IMPERIAL
        THEN [raised |-> c.raised, geometry |-> c.geometry, source |-> tool.geometry]
        ELSE [raised |-> FALSE, geometry |-> copy, source |-> tool.geometry]

\* fusion_data: the dict, as its items in insertion order
FusionData(tool, g, units) ==
    LET Item(key, f, default) == <<key, GetDefault(g, f, IntLit(default))>>
    IN  <<Item("diameter", "diameter", 0),
          Item("fluteLength", "flute_length", 0),
          Item("overallLength", "overall_length", 0)>>
        \o (IF tool.type = END_MILL
            THEN <<Item("fluteCount", "flute_count", 2),
                   Item("helixAngle", "helix_angle", 30),
                   Item("lengthOfCut", "length_of_cut", 0),
                   Item("cornerRadius", "corner_radius", 0)>>
            ELSE IF tool.type = BALL_END_MILL
            THEN <<Item("fluteCount", "flute_count", 2),
                   Item("tipRadius", "tip_radius", 0)>>
            ELSE IF tool.type = CHAMFER
            THEN <<Item("includedAngle", "included_angle", 90),
                   Item("tipFlat", "tip_flat", 0),
                   Item("shankDiameter", "shank_diameter", 0)>>
            ELSE IF tool.type = DRILL
            THEN <<Item("pointAngle", "point_angle", 118)>>
            ELSE IF tool.type = REAMER
            THEN <<Item("leadAngle", "lead_angle", 0)>>
            ELSE IF tool.type = THREAD_MILL
            THEN <<Item("pitch", "pitch", 0),
                   Item("maxThreadLength", "max_thread_length", 0)>>
            ELSE <<>>)

\* _generate_fusion_json: json.dumps(fusion_data, indent = 2), one row
\* <<key, value text>> per item
GenerateFusionJson(tool, units) ==
    LET c    == ExportGeometry(tool, units)
        data == FusionData(tool, c.geometry, units)
    IN  [raised |-> c.raised,
         tool   |-> [tool EXCEPT !.geometry = c.source],
         rows   |-> <<
             <<Ascii("toolType"), Ascii("\"" \o MapToolTypeToFusion(tool.type) \o "\"")>>,
             <<Ascii("name"), JsonString(tool.name)>>,
             <<Ascii("vendor"), JsonString(tool.vendor)>>,
             <<Ascii(data[1][1]), JsonValue(data[1][2])>>,
             <<Ascii(data[2][1]), JsonValue(data[2][2])>>,
             <<Ascii(data[3][1]), JsonValue(data[3][2])>>,
             <<Ascii("units"), Ascii("\"" \o UnitsText(units) \o "\"")>> >>
             \o [i \in 1..(Len(data) - 3) |->
                   <<Ascii(data[i + 3][1]), JsonValue(data[i + 3][2])>>]]

CsvHeaders(tool_type) ==
    <<"Tool Name", "Vendor", "Type", "Diameter", "Flute Length",
      "Overall Length", "Units">>
    \o (IF tool_type = END_MILL
        THEN <<"Flute Count", "Helix Angle", "Length of Cut", "Corner Radius">>
        ELSE IF tool_type = BALL_END_MILL THEN <<"Flute Count", "Tip Radius">>
        ELSE IF tool_type = CHAMFER
        THEN <<"Included Angle", "Tip Flat", "Shank Diameter">>
        ELSE IF tool_type = DRILL THEN <<"Point Angle">>
        ELSE IF tool_type = REAMER THEN <<"Lead Angle">>
        ELSE IF tool_type = THREAD_MILL THEN <<"Pitch", "Max Thread Length">>
        ELSE <<>>)

CsvTypeFields(tool_type) ==
    IF tool_type = END_MILL
    THEN <<"flute_count", "helix_angle", "length_of_cut", "corner_radius">>
    ELSE IF tool_type = BALL_END_MILL THEN <<"flute_count", "tip_radius">>
    ELSE IF tool_type = CHAMFER THEN <<"included_angle", "tip_flat", "shank_diameter">>
    ELSE IF tool_type = DRILL THEN <<"point_angle">>
    ELSE IF tool_type = REAMER THEN <<"lead_angle">>
    ELSE IF tool_type = THREAD_MILL THEN <<"pitch", "max_thread_length">>
    ELSE <<>>

\* _generate_csv: the header row and the data row
GenerateCsv(tool, units) ==
    LET c == ExportGeometry(tool, units)
        g == c.geometry
        headers == CsvHeaders(tool.type)
        fields  == CsvTypeFields(tool.type)
    IN  [raised |-> c.raised,
         tool   |-> [tool EXCEPT !.geometry = c.source],
         rows   |-> <<
             [i \in 1..Len(headers) |-> Ascii(headers[i])],
             <<CsvString(tool.name), CsvString(tool.vendor), Ascii(tool.type),
               CsvValue(GetDefault(g, "diameter", EmptyText)),
               CsvValue(GetDefault(g, "flute_length", EmptyText)),
               CsvValue(GetDefault(g, "overall_length", EmptyText)),
               Ascii(UnitsText(units))>>
             \o [i \in 1..Len(fields) |-> CsvValue(GetDefault(g, fields[i], EmptyText))] >>]

\* the slip "else: fall back to the JSON generator"
MutDefaultFormat(tool, format, units) ==
    LET r == IF format = CSV THEN GenerateCsv(tool, units)
             ELSE GenerateFusionJson(tool, units)
    IN  [raised |-> r.raised,
         tool   |-> r.tool,
         data   |-> [layout |-> FUSION_JSON, rows |-> IF r.raised THEN <<>> ELSE r.rows]]

\* the slip "the text carries the time it was made"
MutStampedData(tool, format, units) ==
    LET r == IF format = FUSION_JSON THEN GenerateFusionJson(tool, units)
             ELSE IF format = CSV THEN GenerateCsv(tool, units)
             ELSE [raised |-> TRUE, tool |-> tool, rows |-> <<>>]
    IN  [raised |-> r.raised,
         tool   |-> r.tool,
         data   |-> [layout |-> format,
                     rows |-> IF r.raised THEN <<>>
                              ELSE Append(r.rows, <<Ascii("createdAt"), Ascii(ToString(now))>>)]]

\* _generate_export_data: the text as [layout, rows], or raised (ValueError
\* for a format that is neither of the two, TypeError from the conversion);
\* tool is the record passed in as the call leaves it
GenerateExportData(tool, format, units) ==
    LET r == IF format = FUSION_JSON THEN GenerateFusionJson(tool, units)
             ELSE IF format = CSV THEN GenerateCsv(tool, units)
             ELSE [raised |-> TRUE, tool |-> tool, rows |-> <<>>]
    IN  [raised |-> r.raised,
         tool   |-> r.tool,
         data   |-> [layout |-> format, rows |-> IF r.raised THEN <<>> ELSE r.rows]]

\* len(export_data)
DataLen(data) == TextLen(data.layout, data.rows)

-----------------------------------------------------------------------------
(* Bounds of the model                                                     *)

MaxTools      == 2    \* rows of table tools
MaxExports    == 2    \* rows of table tool_exports
MaxClock      == 4    \* writes to the store
MaxDeviations == 2    \* fields in which a validated geometry leaves its base
MaxExportDeviations == 1    \* the same, of an exported geometry

-----------------------------------------------------------------------------
(* The tools and requests the model draws                                  *)

AllFields ==
    {"diameter", "flute_length", "overall_length", "flute_count", "helix_angle",
     "length_of_cut", "corner_radius", "tip_radius", "included_angle", "tip_flat",
     "shank_diameter", "point_angle", "lead_angle", "pitch", "max_thread_length"}

BasicFields == {"diameter", "flute_length", "overall_length"}

\* the fields the rules and the export of a type read beyond the basic ones
TypeFields(t) ==
    IF t = END_MILL THEN {"flute_count", "helix_angle", "length_of_cut", "corner_radius"}
    ELSE IF t = BALL_END_MILL THEN {"flute_count", "tip_radius"}
    ELSE IF t = CHAMFER THEN {"included_angle", "tip_flat", "shank_diameter"}
    ELSE IF t = DRILL THEN {"point_angle"}
    ELSE IF t = REAMER THEN {"lead_angle"}
    ELSE {"pitch", "max_thread_length"}

\* a key of another type that a drawn geometry may also carry
ForeignField(t) ==
    IF t = END_MILL THEN "tip_radius"
    ELSE IF t = BALL_END_MILL THEN "corner_radius"
    ELSE IF t = CHAMFER THEN "point_angle"
    ELSE IF t = DRILL THEN "flute_count"
    ELSE IF t = REAMER THEN "pitch"
    ELSE "lead_angle"

DrawnFields(t) == BasicFields \cup TypeFields(t) \cup {ForeignField(t)}

\* a tool every rule accepts: 6 x 20 x 50 mm
NominalValue(f) ==
    IF f = "diameter" THEN Num(6000)
    ELSE IF f = "flute_length" THEN Num(20000)
    ELSE IF f = "overall_length" THEN Num(50000)
    ELSE IF f = "flute_count" THEN Num(2000)
    ELSE IF f = "helix_angle" THEN Num(30000)
    ELSE IF f = "length_of_cut" THEN Num(18000)
    ELSE IF f = "corner_radius" THEN Num(500)
    ELSE IF f = "tip_radius" THEN Num(3000)
    ELSE IF f = "included_angle" THEN Num(90000)
    ELSE IF f = "tip_flat" THEN Num(500)
    ELSE IF f = "shank_diameter" THEN Num(6000)
    ELSE IF f = "point_angle" THEN Num(118000)
    ELSE IF f = "lead_angle" THEN Num(45000)
    ELSE IF f = "pitch" THEN Num(1000)
    ELSE Num(15000)

Nominal(t) ==
    [f \in AllFields |->
        IF f \in BasicFields \cup TypeFields(t) THEN NominalValue(f) ELSE Absent]

\* what a field may hold instead: missing, malformed, zero, negative, and
\* the numbers at which the rules reading the field change their answer
Alternatives(f) ==
    <<Absent, Null, Str, Num(0), Num(-1000)>> \o
    (IF f = "diameter" THEN <<Num(50), Num(100001), Num(6010), Num(6020), Num(25400)>>
     ELSE IF f = "flute_length" THEN <<Num(50000), Num(60000), Num(10000)>>
     ELSE IF f = "overall_length" THEN <<Num(500), Num(500001), Num(20000)>>
     ELSE IF f = "flute_count" THEN <<Num(500), Num(1000)>>
     ELSE IF f = "helix_angle" THEN <<Num(10000), Num(50000), Num(20000)>>
     ELSE IF f = "length_of_cut" THEN <<Num(25000), Num(20000)>>
     ELSE IF f = "corner_radius" THEN <<Num(2000), Num(1500)>>
     ELSE IF f = "tip_radius" THEN <<Num(2000), Num(3005), Num(3010), Num(3011)>>
     ELSE IF f = "tip_flat" THEN <<Num(50), Num(100)>>
     ELSE IF f = "point_angle" THEN <<Num(60000), Num(160000), Num(90000)>>
     ELSE IF f = "lead_angle" THEN <<Num(95000), Num(90000)>>
     ELSE IF f = "max_thread_length" THEN <<Num(25000), Num(20000)>>
     ELSE <<Num(NominalValue(f).num + 1000)>>)

\* geometry = {}
Empty == [f \in AllFields |-> Absent]

\* the geometries drawn around: the nominal tool and the empty geometry
Bases(t) == {Nominal(t), Empty}

\* geometry base with the fields of D replaced, c choosing the alternative
\* of each
Deviate(base, D, c) ==
    [f \in AllFields |-> IF f \in D THEN Alternatives(f)[c[f]] ELSE base[f]]

\* the geometries at most k fields away from a base
Geometries(t, k) ==
    UNION { { Deviate(base, D, c) :
                c \in { x \in [D -> 1..10] : \A f \in D : x[f] <= Len(Alternatives(f)) } } :
            base \in Bases(t),
            D \in { X \in SUBSET DrawnFields(t) : Cardinality(X) <= k } }

Name1 == [s |-> "EM-6", wide |-> 0]
Name2 == [s |-> "Fr#ser", wide |-> 1]      \* one character outside ASCII
Vendor1 == [s |-> "Acme", wide |-> 0]

NoLimits   == [set |-> FALSE, sfm |-> 0]    \* limits = None
SomeLimits == [set |-> TRUE, sfm |-> 300]   \* ToolLimits(sfm = 300).dict()

\* a format outside the enumeration
STEP == "step"

ToolIds   == 1..MaxTools
ExportIds == 1..MaxExports

-----------------------------------------------------------------------------
(* The store and the responses                                             *)

\* a row of table tools (models/tool.py)
Tool(id, name, vendor, type, geometry, limits, at) ==
    [id |-> id, name |-> name, vendor |-> vendor, type |-> type,
     geometry |-> geometry, limits |-> limits,
     created_at |-> at, updated_at |-> at, is_deleted |-> FALSE]

\* a row of table tool_exports
ToolExport(id, tool_id, format, units, data, at) ==
    [id |-> id, tool_id |-> tool_id, export_format |-> format,
     export_units |-> units, file_size |-> DataLen(data), export_data |-> data,
     created_at |-> at]

NoData == [layout |-> "none", rows |-> <<>>]

\* what a handler answers.  An optional value is a sequence of length 0 or 1.
Response(op, id, status) ==
    [op |-> op, id |-> id, status |-> status, tool |-> <<>>, verdict |-> <<>>,
     export |-> <<>>, items |-> <<>>, total |-> 0, data |-> NoData,
     format |-> "", units |-> ""]

NoResponse == Response("none", 0, 0)

-----------------------------------------------------------------------------
(* services/tool_service.py                                                *)

\* the slip "select(Tool).where(Tool.id == tool_id)"
MutSelectLive(tool_id) ==
    IF tool_id \in DOMAIN tools THEN <<tools[tool_id]>> ELSE <<>>

\* select(Tool).where(Tool.id == tool_id, Tool.is_deleted == False)
SelectLive(tool_id) ==
    IF tool_id \in DOMAIN tools /\ ~tools[tool_id].is_deleted
    THEN <<tools[tool_id]>> ELSE <<>>

\* get_tool: the ToolResponse, or None
GetTool(tool_id) ==
    IF SelectLive(tool_id) = <<>> THEN <<>>
    ELSE <<ToolResponse(SelectLive(tool_id)[1])>>

\* Tool.name.ilike("%search%") on the names the model draws
ILike(search, name) == search = "em" /\ name.s = "EM-6"

RECURSIVE Reverse(_)
Reverse(s) == IF s = <<>> THEN <<>> ELSE Append(Reverse(Tail(s)), Head(s))

\* list_tools: the page (newest first) and the total of the filtered rows
ListToolsResult(page, size, search, tool_type) ==
    LET Keep(r) == /\ ~r.is_deleted
                   /\ search # "" => (ILike(search, r.name) \/ ILike(search, r.vendor))
                   /\ tool_type # "" => r.type = tool_type
        rows    == Reverse(SelectSeq(tools, Keep))
        offset  == (page - 1) * size
        last    == IF offset + size < Len(rows) THEN offset + size ELSE Len(rows)
        window  == IF offset + 1 > last THEN <<>> ELSE SubSeq(rows, offset + 1, last)
    IN  [items |-> [i \in 1..Len(window) |-> ToolResponse(window[i])],
         total |-> Len(rows)]

\* the row after the setattr loop of update_tool; upd holds each supplied
\* field as a sequence of length 1 (exclude_unset drops the others)
UpdatedRow(row, upd) ==
    [row EXCEPT
        !.name     = IF upd.name = <<>> THEN @ ELSE upd.name[1],
        !.vendor   = IF upd.vendor = <<>> THEN @ ELSE upd.vendor[1],
        !.geometry = IF upd.geometry = <<>> THEN @ ELSE upd.geometry[1],
        !.limits   = IF upd.limits = <<>> THEN @ ELSE upd.limits[1],
        !.updated_at = now]

\* value.dict() on the dict that tool_data.dict() made of limits: AttributeError
UpdateRaises(upd) == upd.limits # <<>> /\ upd.limits[1].set

-----------------------------------------------------------------------------
(* app/api/routers/tools.py: one action per handler.  The export handler   *)
(* awaits get_tool and then export_tool (whose commit is a second await):  *)
(* other requests run in between, so it is two actions.                    *)

\* the slip "the row of a deleted tool is taken over by the next tool"
MutCreateTool(name, vendor, type, geometry, limits) ==
    LET gone == { i \in DOMAIN tools : tools[i].is_deleted }
        id   == IF gone = {} THEN Len(tools) + 1 ELSE CHOOSE i \in gone : TRUE
        row  == Tool(id, name, vendor, type, geometry, limits, now)
    IN  /\ Len(tools) < MaxTools
        /\ now < MaxClock
        /\ tools' = IF gone = {} THEN Append(tools, row) ELSE [tools EXCEPT ![id] = row]
        /\ now' = now + 1
        /\ resp' = [Response("create", row.id, 200) EXCEPT !.tool = <<ToolResponse(row)>>]
        /\ UNCHANGED <<exports, pending, hist>>

CreateTool(name, vendor, type, geometry, limits) ==
    LET row == Tool(Len(tools) + 1, name, vendor, type, geometry, limits, now)
    IN  /\ Len(tools) < MaxTools
        /\ now < MaxClock
        /\ tools' = Append(tools, row)
        /\ now' = now + 1
        /\ resp' = [Response("create", row.id, 200) EXCEPT !.tool = <<ToolResponse(row)>>]
        /\ UNCHANGED <<exports, pending, hist>>

GetToolHandler(tool_id) ==
    /\ resp' = IF GetTool(tool_id) = <<>> THEN Response("get", tool_id, 404)
               ELSE [Response("get", tool_id, 200) EXCEPT !.tool = GetTool(tool_id)]
    /\ UNCHANGED <<tools, exports, pending, now, hist>>

ListTools(page, size, search, tool_type) ==
    LET r == ListToolsResult(page, size, search, tool_type)
    IN  /\ resp' = [Response("list", 0, 200) EXCEPT !.items = r.items, !.total = r.total]
        /\ UNCHANGED <<tools, exports, pending, now, hist>>

UpdateTool(tool_id, upd) ==
    /\ now < MaxClock
    /\ IF SelectLive(tool_id) = <<>>
       THEN /\ resp' = Response("update", tool_id, 404)
            /\ UNCHANGED <<tools, now>>
       ELSE IF UpdateRaises(upd)
       THEN /\ resp' = Response("update", tool_id, 500)
            /\ UNCHANGED <<tools, now>>
       ELSE LET row == UpdatedRow(tools[tool_id], upd)
            IN  /\ tools' = [tools EXCEPT ![tool_id] = row]
                /\ now' = now + 1
                /\ resp' = [Response("update", tool_id, 200) EXCEPT !.tool = <<ToolResponse(row)>>]
    /\ UNCHANGED <<exports, pending, hist>>

\* the slip "the exports of a deleted tool are deleted with it"
MutDeleteTool(tool_id) ==
    /\ now < MaxClock
    /\ IF SelectLive(tool_id) = <<>>
       THEN /\ resp' = Response("delete", tool_id, 404)
            /\ UNCHANGED <<tools, now, exports, hist>>
       ELSE /\ tools' = [tools EXCEPT ![tool_id].is_deleted = TRUE,
                                      ![tool_id].updated_at = now]
            /\ now' = now + 1
            /\ resp' = Response("delete", tool_id, 200)
            /\ exports' = SelectSeq(exports, LAMBDA e : e.tool_id # tool_id)
            /\ hist' = SelectSeq(hist, LAMBDA t : t.id # tool_id)
    /\ UNCHANGED pending

DeleteTool(tool_id) ==
    /\ now < MaxClock
    /\ IF SelectLive(tool_id) = <<>>
       THEN /\ resp' = Response("delete", tool_id, 404)
            /\ UNCHANGED <<tools, now>>
       ELSE /\ tools' = [tools EXCEPT ![tool_id].is_deleted = TRUE,
                                      ![tool_id].updated_at = now]
            /\ now' = now + 1
            /\ resp' = Response("delete", tool_id, 200)
    /\ UNCHANGED <<exports, pending, hist>>

ValidateHandler(tool_id, fp) ==
    /\ resp' = IF GetTool(tool_id) = <<>> THEN Response("validate", tool_id, 404)
               ELSE LET v == ValidateTool(GetTool(tool_id)[1], fp)
                    IN  IF v.raised THEN Response("validate", tool_id, 500)
                        ELSE [Response("validate", tool_id, 200) EXCEPT
                                !.verdict = <<ValidationResponse(v.is_valid, v.errors, v.warnings)>>]
    /\ UNCHANGED <<tools, exports, pending, now, hist>>

\* export handler up to the return of get_tool.  ExportRequest admits only
\* the formats of the enumeration: another one is answered 422 by the
\* framework and the handler does not run.
ExportLookup(tool_id, format, units) ==
    /\ Len(exports) + Len(pending) < MaxExports
    /\ IF format \notin ExportFormat
       THEN /\ resp' = [Response("export", tool_id, 422) EXCEPT !.format = format, !.units = units]
            /\ UNCHANGED pending
       ELSE IF GetTool(tool_id) = <<>>
       THEN /\ resp' = [Response("export", tool_id, 404) EXCEPT !.format = format, !.units = units]
            /\ UNCHANGED pending
       ELSE /\ pending' = Append(pending, [tool |-> GetTool(tool_id)[1],
                                           format |-> format, units |-> units])
            /\ UNCHANGED resp
    /\ UNCHANGED <<tools, exports, now, hist>>

\* export_service.export_tool(tool, export_request) and the handler's answer
ExportTool(tool, format, units) ==
    LET r   == GenerateExportData(tool, format, units)
        row == ToolExport(Len(exports) + 1, tool.id, format, units, r.data, now)
    IN  IF r.raised
        THEN /\ resp' = [Response("export", tool.id, 500) EXCEPT !.format = format, !.units = units]
             /\ UNCHANGED <<exports, hist, now>>
        ELSE /\ exports' = Append(exports, row)
             /\ hist' = Append(hist, r.tool)
             /\ now' = now + 1
             /\ resp' = [Response("export", tool.id, 200) EXCEPT
                            !.format = format, !.units = units,
                            !.export = <<[export_id |-> row.id, tool_id |-> tool.id,
                                          format |-> format, units |-> units,
                                          file_size |-> DataLen(r.data),
                                          created_at |-> row.created_at]>>]

\* the rest of the export handler for the i-th request in flight
ExportCommit(i) ==
    /\ i \in 1..Len(pending)
    /\ ExportTool(pending[i].tool, pending[i].format, pending[i].units)
    /\ pending' = [j \in 1..(Len(pending) - 1) |-> IF j < i THEN pending[j] ELSE pending[j + 1]]
    /\ UNCHANGED tools

\* get_export: export_data, or None
GetExport(export_id) ==
    IF export_id \in DOMAIN exports THEN <<exports[export_id].export_data>> ELSE <<>>

DownloadExport(export_id) ==
    /\ resp' = IF GetExport(export_id) = <<>> THEN Response("download", export_id, 404)
               ELSE [Response("download", export_id, 200) EXCEPT !.data = GetExport(export_id)[1]]
    /\ UNCHANGED <<tools, exports, pending, now, hist>>

-----------------------------------------------------------------------------
(* Specifications                                                          *)

\* the requests the service model draws
CreateInputs ==
    { <<Name1, DRILL, Nominal(DRILL)>>,
      <<Name2, BALL_END_MILL, Deviate(Nominal(BALL_END_MILL), {"tip_radius"}, [f \in {"tip_radius"} |-> 2])>> }

UpdateInputs ==
    { [name |-> <<Name2>>, vendor |-> <<>>, geometry |-> <<>>, limits |-> <<>>],
      [name |-> <<>>, vendor |-> <<>>, limits |-> <<>>,
       geometry |-> <<Deviate(Nominal(DRILL), {"diameter"}, [f \in {"diameter"} |-> 10])>>],
      [name |-> <<>>, vendor |-> <<>>, geometry |-> <<>>, limits |-> <<SomeLimits>>] }

\* <<page, size, search, tool_type>>
ListInputs == { <<1, 1, "", "">>, <<2, 1, "", "">>, <<1, 2, "em", DRILL>> }

\* <<format, units>>
ExportInputs == { <<FUSION_JSON, METRIC>>, <<CSV, IMPERIAL>>, <<STEP, METRIC>> }

Init ==
    /\ tools = <<>>
    /\ exports = <<>>
    /\ pending = <<>>
    /\ resp = NoResponse
    /\ now = 1
    /\ hist = <<>>

Next ==
    \/ \E c \in CreateInputs : CreateTool(c[1], Vendor1, c[2], c[3], NoLimits)
    \/ \E id \in ToolIds : GetToolHandler(id)
    \/ \E q \in ListInputs : ListTools(q[1], q[2], q[3], q[4])
    \/ \E id \in ToolIds, upd \in UpdateInputs : UpdateTool(id, upd)
    \/ \E id \in ToolIds : DeleteTool(id)
    \/ \E id \in ToolIds, fp \in BOOLEAN : ValidateHandler(id, fp)
    \/ \E id \in ToolIds, q \in ExportInputs : ExportLookup(id, q[1], q[2])
    \/ \E i \in ExportIds : ExportCommit(i)
    \/ \E id \in ExportIds : DownloadExport(id)

Spec == Init /\ [][Next]_vars

\* the validator on drawn tools: one stored tool, validated
InitValidate ==
    /\ \E t \in ToolType : \E g \in Geometries(t, MaxDeviations) :
          tools = <<Tool(1, Name1, Vendor1, t, g, NoLimits, 1)>>
    /\ exports = <<>>
    /\ pending = <<>>
    /\ resp = NoResponse
    /\ now = 2
    /\ hist = <<>>

NextValidate == \E fp \in BOOLEAN : ValidateHandler(1, fp)

SpecValidate == InitValidate /\ [][NextValidate]_vars

\* the exporter on drawn arguments: one stored tool, and MaxExports calls
\* export_tool(tool, request) about to be made with it.  The service is
\* called as the core's contract allows, with any format.
InitExport ==
    /\ \E t \in ToolType : \E g \in Geometries(t, MaxExportDeviations) :
       \E format \in ExportFormat \cup {STEP}, units \in ExportUnits :
          LET row == Tool(1, Name1, Vendor1, t, g, NoLimits, 1)
          IN  /\ tools = <<row>>
              /\ pending = [i \in 1..MaxExports |->
                              [tool |-> ToolResponse(row), format |-> format, units |-> units]]
    /\ exports = <<>>
    /\ resp = NoResponse
    /\ now = 2
    /\ hist = <<>>

NextExport == \E i \in ExportIds : ExportCommit(i)

SpecExport == InitExport /\ [][NextExport]_vars

-----------------------------------------------------------------------------
(* Properties of the validator (SpecValidate)                              *)

\* the verdict of the validate request answered last, when it returned one
Verdict == resp.verdict[1]

Validated == resp.op = "validate" /\ resp.status = 200

\* the record the request answered last was about
Subject == ToolResponse(tools[resp.id])

ErrorsOn(errors, f) == { i \in 1..Len(errors) : errors[i].field = f }

\* the fields section 4.1 of the specification requires of a type
RequiredFields(t) ==
    BasicFields \cup
    (IF t = END_MILL THEN {"flute_count", "helix_angle", "length_of_cut"}
     ELSE IF t = REAMER THEN {}
     ELSE TypeFields(t))

\* C1: whenever validate_tool returns, is_valid is true exactly when the
\* errors list is empty (warnings play no part), every finding of errors has
\* severity "error" and every finding of warnings has severity "warning".
C1_ValidIffNoErrors ==
    Validated =>
        /\ Verdict.is_valid <=> (Verdict.errors = <<>>)
        /\ \A i \in 1..Len(Verdict.errors) : Verdict.errors[i].severity = "error"
        /\ \A i \in 1..Len(Verdict.warnings) : Verdict.warnings[i].severity = "warning"

\* a verdict that is valid although it carries warnings
C1_Witness ==
    /\ Validated
    /\ Verdict.is_valid
    /\ Verdict.errors = <<>>
    /\ Verdict.warnings # <<>>

\* C2: validate_tool is total: for every stored tool the validate request
\* returns a verdict, and every required field that is absent, null or
\* malformed has an error finding in it.
C2_Total ==
    resp.op = "validate" =>
        /\ resp.status = 200
        /\ \A f \in RequiredFields(Subject.type) :
              Subject.geometry[f].kind \in {"absent", "null", "str"}
                  => ErrorsOn(Verdict.errors, f) # {}

\* C3: for a ball_end_mill whose diameter and tip_radius are both numbers
\* (0 and negatives included) the verdict has an error on tip_radius whenever
\* |tip_radius - diameter / 2| > 0.01, and no mismatch error when tip_radius
\* is exactly diameter / 2.
C3_BallNose ==
    LET d == Subject.geometry["diameter"]
        r == Subject.geometry["tip_radius"]
        off == IF 2 * r.num - d.num < 0 THEN d.num - 2 * r.num ELSE 2 * r.num - d.num
    IN  (Validated /\ Subject.type = BALL_END_MILL /\ d.kind = "num" /\ r.kind = "num") =>
            /\ off > 2 * 10 => ErrorsOn(Verdict.errors, "tip_radius") # {}
            /\ off = 0 =>
                 \A i \in ErrorsOn(Verdict.errors, "tip_radius") :
                    Verdict.errors[i].message
                        # "Tip radius must equal half the diameter for ball end mills"

\* tool with geometry[f] = v
WithField(tool, f, v) == [tool EXCEPT !.geometry[f] = v]

\* values a field's own error rule rejects (section 4.1: non-positive where a
\* positive value is required, below 1 for flute_count, negative for
\* helix_angle and tip_flat; lead_angle and corner_radius have no error rule)
C9_ErrorRange(f) ==
    IF f \in {"lead_angle", "corner_radius"} THEN {}
    ELSE IF f \in {"helix_angle", "tip_flat"} THEN {Num(-1000)}
    ELSE IF f = "flute_count" THEN {Num(-1000), Num(0), Num(500)}
    ELSE {Num(-1000), Num(0)}

\* values outside a range section 4.1 gives for the field, the typical
\* ranges of the warnings included
C9_AnyRange(f) ==
    C9_ErrorRange(f) \cup
    (IF f = "diameter" THEN {Num(50), Num(100001)}
     ELSE IF f = "overall_length" THEN {Num(500), Num(500001)}
     ELSE IF f = "helix_angle" THEN {Num(10000), Num(50000)}
     ELSE IF f = "point_angle" THEN {Num(60000), Num(160000)}
     ELSE IF f = "lead_angle" THEN {Num(-1000), Num(95000)}
     ELSE {})

\* the error count never falls when an absent field is added with a value
\* of Range(f)
C9_Monotonic(Range(_)) ==
    \A id \in DOMAIN tools : \A f \in AllFields : \A fp \in BOOLEAN :
        LET tool   == ToolResponse(tools[id])
            before == ValidateTool(tool, fp)
        IN  (tool.geometry[f].kind = "absent" /\ ~before.raised) =>
                \A v \in Range(f) :
                    LET after == ValidateTool(WithField(tool, f, v), fp)
                    IN  ~after.raised => Len(after.errors) >= Len(before.errors)

\* C9 (as amended): adding to a geometry an absent field with a value that
\* the field's own error rule rejects never makes validate_tool return fewer
\* errors than it returned without the field.
C9_MonotonicValidity == C9_Monotonic(C9_ErrorRange)

\* C9 (as stated): the same for every out-of-range value, the values outside
\* a field's typical range included.
C9_AsStated == C9_Monotonic(C9_AnyRange)

\* a validated tool for which such an addition strictly raises the count
C9_Witness ==
    /\ Validated
    /\ \E f \in AllFields : \E v \in C9_ErrorRange(f) : \E fp \in BOOLEAN :
          LET after == ValidateTool(WithField(Subject, f, v), fp)
          IN  /\ Subject.geometry[f].kind = "absent"
              /\ ~after.raised
              /\ Len(after.errors) > Len(Verdict.errors)

\* the error rules of section 4.1 that a tool violates and that name field f
C10_Violated(tool, f) ==
    LET g == tool.geometry
        IsNum(x) == g[x].kind = "num"
        own == IF f \notin RequiredFields(tool.type) THEN 0
               ELSE IF ~IsNum(f) THEN 1
               ELSE IF f = "flute_count" THEN (IF g[f].num < 1000 THEN 1 ELSE 0)
               ELSE IF f \in {"helix_angle", "tip_flat"} THEN (IF g[f].num < 0 THEN 1 ELSE 0)
               ELSE IF g[f].num <= 0 THEN 1 ELSE 0
        cross ==
            IF f = "flute_length"
            THEN (IF IsNum("flute_length") /\ IsNum("overall_length")
                     /\ g["flute_length"].num >= g["overall_length"].num THEN 1 ELSE 0)
            ELSE IF f = "length_of_cut" /\ tool.type = END_MILL
            THEN (IF IsNum("flute_length") /\ IsNum("length_of_cut")
                     /\ g["flute_length"].num < g["length_of_cut"].num THEN 1 ELSE 0)
            ELSE IF f = "tip_radius" /\ tool.type = BALL_END_MILL
            THEN (IF IsNum("diameter") /\ IsNum("tip_radius")
                     /\ (2 * g["tip_radius"].num - g["diameter"].num > 2 * 10
                         \/ g["diameter"].num - 2 * g["tip_radius"].num > 2 * 10)
                  THEN 1 ELSE 0)
            ELSE 0
    IN  own + cross

\* C10: no rule short-circuits another: every violated error rule of the
\* basic and of the type-specific stage has its own finding in the one
\* verdict, whatever else is invalid in the geometry.
C10_NoShortCircuit ==
    resp.op = "validate" =>
        /\ resp.status = 200
        /\ \A f \in AllFields :
              Cardinality(ErrorsOn(Verdict.errors, f)) >= C10_Violated(Subject, f)

-----------------------------------------------------------------------------
(* Properties of the exporter (SpecExport) and of the service (Spec)       *)

\* pending without its i-th request
Without(i) ==
    [j \in 1..(Len(pending) - 1) |-> IF j < i THEN pending[j] ELSE pending[j + 1]]

\* C4: an export_tool call whose format is neither of the two supported ones
\* fails and the failure reaches the caller; no export record is stored for
\* it (no content is generated under another format) and the tools and the
\* exports stored before are unchanged.
C4_UnsupportedFormat ==
    [][\A i \in DOMAIN pending :
          (pending[i].format \notin ExportFormat /\ pending' = Without(i)) =>
              /\ resp'.op = "export"
              /\ resp'.status = 500
              /\ resp'.export = <<>>
              /\ exports' = exports
              /\ tools' = tools]_vars

\* a call with format "step" has been answered and nothing is stored
C4_Witness ==
    /\ resp.op = "export"
    /\ resp.format = STEP
    /\ resp.status = 500
    /\ Len(pending) < MaxExports
    /\ exports = <<>>

\* the documented fields of a structured export: <<key, geometry field,
\* default>> (section 4.2)
C5_Documented(t) ==
    << <<"diameter", "diameter", "0">>,
       <<"fluteLength", "flute_length", "0">>,
       <<"overallLength", "overall_length", "0">> >>
    \o (IF t = END_MILL
        THEN << <<"fluteCount", "flute_count", "2">>,
                <<"helixAngle", "helix_angle", "30">>,
                <<"lengthOfCut", "length_of_cut", "0">>,
                <<"cornerRadius", "corner_radius", "0">> >>
        ELSE IF t = BALL_END_MILL
        THEN << <<"fluteCount", "flute_count", "2">>, <<"tipRadius", "tip_radius", "0">> >>
        ELSE IF t = CHAMFER
        THEN << <<"includedAngle", "included_angle", "90">>,
                <<"tipFlat", "tip_flat", "0">>,
                <<"shankDiameter", "shank_diameter", "0">> >>
        ELSE IF t = DRILL THEN << <<"pointAngle", "point_angle", "118">> >>
        ELSE IF t = REAMER THEN << <<"leadAngle", "lead_angle", "0">> >>
        ELSE << <<"pitch", "pitch", "0">>, <<"maxThreadLength", "max_thread_length", "0">> >>)

\* C5: every structured (JSON) export holds each documented field of the
\* tool's type, never null, and holds the documented default where the
\* geometry's key is absent or its value is null.
C5_JsonDefaults ==
    \A e \in DOMAIN exports :
        exports[e].export_format = FUSION_JSON =>
            LET rows == exports[e].export_data.rows
                tool == hist[e]
                doc  == C5_Documented(tool.type)
            IN  \A k \in DOMAIN doc :
                    \E r \in DOMAIN rows :
                        /\ rows[r][1].text = doc[k][1]
                        /\ rows[r][2].text # "null"
                        /\ tool.geometry[doc[k][2]].kind \in {"absent", "null"}
                               => rows[r][2].text = doc[k][3]

\* the part of a tool record an export is made from
Exported(tool) ==
    [id |-> tool.id, name |-> tool.name, vendor |-> tool.vendor,
     type |-> tool.type, geometry |-> tool.geometry]

\* C6: two stored exports of the same tool record with the same format and
\* units have identical content and identical size, whatever ran in between.
C6_Deterministic ==
    \A i, j \in DOMAIN exports :
        (/\ Exported(hist[i]) = Exported(hist[j])
         /\ exports[i].export_format = exports[j].export_format
         /\ exports[i].export_units = exports[j].export_units)
        => /\ exports[i].export_data = exports[j].export_data
           /\ exports[i].file_size = exports[j].file_size

\* the same record exported twice with the same format and units
C6_Witness ==
    \E i, j \in DOMAIN exports :
        /\ i < j
        /\ Exported(hist[i]) = Exported(hist[j])
        /\ exports[i].export_format = exports[j].export_format
        /\ exports[i].export_units = exports[j].export_units
        /\ exports[i].created_at # exports[j].created_at

Deleted(id) == id \in DOMAIN tools /\ tools[id].is_deleted

\* C7: once tool id is deleted, every request made afterwards finds it
\* gone: get, update, delete, validate and export of id answer not-found,
\* the row is not changed, no export is begun or stored for it, and a list
\* neither holds it nor counts it.  (A request is answered 422 without its
\* handler running when its body names a format outside the enumeration; a
\* step that takes a request out of pending ends an export begun earlier.)
C7_SoftDeleteExclusion ==
    [][\A id \in ToolIds :
          Deleted(id) =>
              /\ tools'[id] = tools[id]
              /\ GetTool(id)' = <<>>
              /\ (/\ resp' # resp
                  /\ resp'.id = id
                  /\ resp'.op \in {"get", "update", "delete", "validate", "export"}
                  /\ resp'.status # 422
                  /\ Len(pending') >= Len(pending))
                 => /\ resp'.status = 404
                    /\ exports' = exports
                    /\ pending' = pending
              /\ (resp' # resp /\ resp'.op = "list")
                 => /\ \A k \in DOMAIN resp'.items : resp'.items[k].id # id
                    /\ resp'.total <= Cardinality({ k \in DOMAIN tools : ~tools[k].is_deleted })
              /\ \A k \in DOMAIN pending' :
                    k > Len(pending) => pending'[k].tool.id # id]_vars

\* an export of a deleted tool has been answered not-found
C7_Witness ==
    /\ resp.op = "export"
    /\ resp.status = 404
    /\ Deleted(resp.id)
    /\ \A e \in DOMAIN exports : exports[e].tool_id # resp.id

\* C8: export records are append-only and immutable: a successful export
\* adds exactly one record under a fresh export_id, no step changes or
\* removes a stored record, and get_export returns the content generated
\* from the tool as it was when exported.
C8_ExportsImmutable ==
    /\ [](\A e \in DOMAIN exports :
            /\ exports[e].id = e
            /\ GetExport(e) = <<GenerateExportData(hist[e], exports[e].export_format,
                                                   exports[e].export_units).data>>
            /\ exports[e].file_size = DataLen(GetExport(e)[1])
            /\ exports[e].tool_id = hist[e].id)
    /\ [][/\ \A e \in DOMAIN exports : e \in DOMAIN exports' /\ exports'[e] = exports[e]
          /\ Len(exports') <= Len(exports) + 1
          /\ (resp' # resp /\ resp'.op = "export" /\ resp'.status = 200)
                => /\ Len(exports') = Len(exports) + 1
                   /\ resp'.export[1].export_id = Len(exports')
                   /\ \A e \in DOMAIN exports : exports[e].id # resp'.export[1].export_id]_vars

\* the export of a tool that was deleted afterwards is downloaded unchanged
C8_Witness ==
    /\ resp.op = "download"
    /\ resp.status = 200
    /\ resp.id \in DOMAIN exports
    /\ Deleted(exports[resp.id].tool_id)
    /\ resp.data = GenerateExportData(hist[resp.id], exports[resp.id].export_format,
                                      exports[resp.id].export_units).data

-----------------------------------------------------------------------------
(* Properties of the single rules (SpecValidate)                           *)

\* the end mills the claim calls fully in range
C11_InRange(tool) ==
    LET g == tool.geometry
        IsNum(f) == g[f].kind = "num"
    IN  /\ tool.type = END_MILL
        /\ \A f \in BasicFields \cup {"flute_count", "helix_angle", "length_of_cut"} : IsNum(f)
        /\ g["diameter"].num >= 100 /\ g["diameter"].num <= 100000
        /\ g["overall_length"].num >= 1000 /\ g["overall_length"].num <= 500000
        /\ g["flute_length"].num > 0 /\ g["flute_length"].num < g["overall_length"].num
        /\ g["length_of_cut"].num > 0 /\ g["length_of_cut"].num <= g["flute_length"].num
        /\ g["flute_count"].num >= 1000
        /\ g["helix_angle"].num >= 20000 /\ g["helix_angle"].num <= 45000
        /\ \/ g["corner_radius"].kind = "absent"
           \/ IsNum("corner_radius") /\ 4 * g["corner_radius"].num <= g["diameter"].num

\* C11: a fully in-range end mill validates cleanly: the validate request
\* returns is_valid = true with no errors and no warnings.
C11_ValidEndMill ==
    (resp.op = "validate" /\ C11_InRange(Subject)) =>
        /\ resp.status = 200
        /\ Verdict.is_valid
        /\ Verdict.errors = <<>>
        /\ Verdict.warnings = <<>>

\* a clean verdict for an in-range end mill at an end of a range (helix
\* angle 20, or length of cut equal to the flute length, or corner radius a
\* quarter of the diameter)
C11_Witness ==
    /\ Validated
    /\ C11_InRange(Subject)
    /\ Verdict.is_valid
    /\ Verdict.warnings = <<>>
    /\ \/ Subject.geometry["helix_angle"].num = 20000
       \/ Subject.geometry["length_of_cut"].num = Subject.geometry["flute_length"].num
       \/ 4 * Subject.geometry["corner_radius"].num = Subject.geometry["diameter"].num

-----------------------------------------------------------------------------
(* Properties of the export records (Spec)                                 *)

RECURSIVE SumBytes(_)
SumBytes(cells) ==
    IF cells = <<>> THEN 0 ELSE Head(cells).bytes + SumBytes(Tail(cells))

RECURSIVE TextBytes(_, _)
\* the bytes the text laid out from rows of cells encodes to (UTF-8): the
\* layout characters are ASCII, a cell counts its bytes
TextBytes(layout, rows) ==
    IF rows = <<>> THEN (IF layout = FUSION_JSON THEN 2 ELSE 0)
    ELSE LET row == Head(rows)
         IN  (IF layout = FUSION_JSON
              THEN 2 + (row[1].bytes + 2) + 2 + row[2].bytes + 2
              ELSE SumBytes(row) + (Len(row) - 1) + 2)
             + TextBytes(layout, Tail(rows))

\* C12: the size recorded for an export, in the stored record and in the
\* response, is the byte length of the serialized content, also when name or
\* vendor hold characters that encode to more than one byte.
C12_SizeIsByteLength ==
    /\ \A e \in DOMAIN exports :
          exports[e].file_size
              = TextBytes(exports[e].export_data.layout, exports[e].export_data.rows)
    /\ (resp.op = "export" /\ resp.status = 200) =>
          resp.export[1].file_size
              = TextBytes(exports[resp.export[1].export_id].export_data.layout,
                          exports[resp.export[1].export_id].export_data.rows)

-----------------------------------------------------------------------------
(* Frame of validation and export (Spec)                                   *)

\* C13: validation and export never modify the tool they are given: a
\* validate or export request leaves every stored tool as it was, the
\* record handed to export_tool is after the call what it was before (id,
\* name, vendor, type, geometry, limits), and the imperial conversion leaves
\* the geometry it is handed untouched.
C13_ToolUnchanged ==
    /\ [](\A e \in DOMAIN exports :
             ConvertToImperial(hist[e].geometry).argument = hist[e].geometry)
    /\ [][/\ (resp' # resp /\ resp'.op \in {"validate", "export"}) => tools' = tools
          /\ \A i \in DOMAIN pending :
                (pending' = Without(i) /\ Len(exports') = Len(exports) + 1)
                    => hist'[Len(hist')] = pending[i].tool]_vars

\* an imperial export has been stored and its tool is still in millimetres
C13_Witness ==
    /\ resp.op = "export"
    /\ resp.status = 200
    /\ resp.units = IMPERIAL
    /\ hist[resp.export[1].export_id] = ToolResponse(tools[resp.id])
    /\ tools[resp.id].geometry["diameter"] = Num(6000)
    /\ exports[resp.export[1].export_id].export_data.rows[2][4].text = "0.2362"

-----------------------------------------------------------------------------
(* Properties of the basic stage (SpecValidate)                            *)

\* the error of the basic stage that requires field f
C14_Message(f) ==
    IF f = "diameter" THEN "Diameter must be greater than 0"
    ELSE IF f = "flute_length" THEN "Flute length must be greater than 0"
    ELSE "Overall length must be greater than 0"

\* the findings of a list that say message about field f
Saying(findings, f, message) ==
    { i \in 1..Len(findings) : findings[i].field = f /\ findings[i].message = message }

\* a field that is missing (key absent, or None) or holds a number <= 0
MissingOrNonPositive(v) == v.kind \in {"absent", "null"} \/ (v.kind = "num" /\ v.num <= 0)

\* C14: for every type and each of diameter, flute_length, overall_length,
\* the verdict holds exactly one basic-stage error naming the field when the
\* field is absent or its value is <= 0, and none when the value is
\* strictly positive.
C14_BasicStage ==
    Validated =>
        \A f \in BasicFields :
            Cardinality(Saying(Verdict.errors, f, C14_Message(f)))
                = IF MissingOrNonPositive(Subject.geometry[f]) THEN 1 ELSE 0

\* a verdict with the three basic errors, one of them for a value of 0
C14_Witness ==
    /\ Validated
    /\ \A f \in BasicFields : Saying(Verdict.errors, f, C14_Message(f)) # {}
    /\ \E f \in BasicFields : Subject.geometry[f] = Num(0)
    /\ \E f \in BasicFields : Subject.geometry[f] = Absent


\* C15: whenever flute_length and overall_length are both numbers (0 and
\* negative ones included), the verdict holds the error "Flute length must
\* be less than overall length" on flute_length when flute_length >=
\* overall_length, and does not hold it when flute_length < overall_length.
C15_CrossField ==
    LET fl == Subject.geometry["flute_length"]
        ol == Subject.geometry["overall_length"]
    IN  (Validated /\ fl.kind = "num" /\ ol.kind = "num") =>
            Cardinality(Saying(Verdict.errors, "flute_length",
                               "Flute length must be less than overall length"))
                = IF fl.num >= ol.num THEN 1 ELSE 0

\* C16: for an end_mill the verdict holds an error on helix_angle exactly
\* when helix_angle is missing or negative; a helix_angle of 0 has no error
\* and draws the warning of the range 20-45.
C16_Helix ==
    LET h == Subject.geometry["helix_angle"]
    IN  (Validated /\ Subject.type = END_MILL) =>
            /\ ErrorsOn(Verdict.errors, "helix_angle") # {}
                  <=> (h.kind \in {"absent", "null"} \/ (h.kind = "num" /\ h.num < 0))
            /\ h = Num(0) => ErrorsOn(Verdict.warnings, "helix_angle") # {}

\* C17: for a chamfer tool the verdict holds an error on tip_flat exactly
\* when tip_flat is missing or negative, and a warning on tip_flat exactly
\* when tip_flat is a number below 0.1: tip_flat = 0 has no error and one
\* warning.
C17_TipFlat ==
    LET v == Subject.geometry["tip_flat"]
    IN  (Validated /\ Subject.type = CHAMFER) =>
            /\ ErrorsOn(Verdict.errors, "tip_flat") # {}
                  <=> (v.kind \in {"absent", "null"} \/ (v.kind = "num" /\ v.num < 0))
            /\ Cardinality(ErrorsOn(Verdict.warnings, "tip_flat"))
                  = IF v.kind = "num" /\ v.num < 100 THEN 1 ELSE 0

\* C18: for every type the verdict holds a warning on diameter exactly when
\* diameter is a number outside [0.1, 100], and a warning on overall_length
\* exactly when overall_length is a number outside [1, 500], values of 0 or
\* below included.
C18_RangeWarnings ==
    LET d  == Subject.geometry["diameter"]
        ol == Subject.geometry["overall_length"]
    IN  Validated =>
            /\ ErrorsOn(Verdict.warnings, "diameter") # {}
                  <=> (d.kind = "num" /\ (d.num < 100 \/ d.num > 100000))
            /\ ErrorsOn(Verdict.warnings, "overall_length") # {}
                  <=> (ol.kind = "num" /\ (ol.num < 1000 \/ ol.num > 500000))

-----------------------------------------------------------------------------
(* Dispatch and order (SpecValidate)                                       *)

\* the tool without the geometry keys that neither the basic stage nor the
\* rule set of its type reads
OwnKeysOnly(tool) ==
    [tool EXCEPT !.geometry =
        [f \in AllFields |->
            IF f \in BasicFields \cup TypeFields(tool.type) THEN tool.geometry[f] ELSE Absent]]

\* C19: exactly one type-specific rule set runs: findings name only basic
\* fields, fields of the type's own rule set or compatibility fields, and a
\* geometry key of another type changes nothing: the request is answered as
\* it is for the tool without such keys.
C19_DispatchExclusive ==
    resp.op = "validate" =>
        /\ Validated =>
              \A i \in 1..(Len(Verdict.errors) + Len(Verdict.warnings)) :
                  (Verdict.errors \o Verdict.warnings)[i].field
                      \in BasicFields \cup TypeFields(Subject.type) \cup {"type"}
        /\ \E fp \in BOOLEAN :
              LET v == ValidateTool(OwnKeysOnly(Subject), fp)
              IN  IF v.raised THEN resp.status = 500
                  ELSE /\ resp.status = 200
                       /\ Verdict = ValidationResponse(v.is_valid, v.errors, v.warnings)

\* a drill carrying flute_count = 0 is valid
C19_Witness ==
    /\ Validated
    /\ Subject.type = DRILL
    /\ Subject.geometry["flute_count"] = Num(0)
    /\ Verdict.is_valid

\* the place of a finding in the order the rules are listed in section 4.1:
\* the basic stage, the rules of the type, the compatibility stage
C20_Rank(message) ==
    IF message = "Diameter must be greater than 0" THEN 1
    ELSE IF message = "Flute length must be greater than 0" THEN 2
    ELSE IF message = "Overall length must be greater than 0" THEN 3
    ELSE IF message = "Flute length must be less than overall length" THEN 4
    ELSE IF message \in {"Flute count must be at least 1",
                         "Included angle is required and must be greater than 0",
                         "Point angle must be greater than 0",
                         "Pitch must be greater than 0"} THEN 5
    ELSE IF message \in {"Helix angle must be non-negative",
                         "Tip radius must be greater than 0",
                         "Tip flat is required",
                         "Maximum thread length must be greater than 0"} THEN 6
    ELSE IF message \in {"Length of cut must be greater than 0",
                         "Tip radius must equal half the diameter for ball end mills",
                         "Shank diameter must be greater than 0"} THEN 7
    ELSE IF message = "Length of cut cannot exceed flute length" THEN 8
    ELSE IF message \in {"Unusual helix angle - typical range is 20-45 degrees",
                         "Very small tip flat may be difficult to manufacture",
                         "Unusual point angle - typical range is 90-150 degrees",
                         "Lead angle should be between 0 and 90 degrees",
                         "Maximum thread length should not exceed flute length"} THEN 9
    ELSE IF message = "Large corner radius may affect cutting performance" THEN 10
    ELSE IF message = "Tool type is not supported by Fusion 360" THEN 11
    ELSE IF message = "Diameter outside typical range (0.1-100mm)" THEN 12
    ELSE 13

InListedOrder(findings) ==
    \A i, j \in 1..Len(findings) :
        i < j => C20_Rank(findings[i].message) < C20_Rank(findings[j].message)

\* C20: in the errors list and in the warnings list the findings of the
\* basic stage come first, then those of the type, then those of the
\* compatibility stage, and within a stage in the order the rules are listed.
C20_FindingOrder ==
    Validated => InListedOrder(Verdict.errors) /\ InListedOrder(Verdict.warnings)

\* a verdict with errors of the basic stage and of the type, and warnings of
\* the type and of the compatibility stage
C20_Witness ==
    /\ Validated
    /\ \E i, j \in 1..Len(Verdict.errors) :
          C20_Rank(Verdict.errors[i].message) <= 4 /\ C20_Rank(Verdict.errors[j].message) >= 5
    /\ \E i, j \in 1..Len(Verdict.warnings) :
          C20_Rank(Verdict.warnings[i].message) <= 10 /\ C20_Rank(Verdict.warnings[j].message) >= 12

-----------------------------------------------------------------------------
(* Properties of the exported values (SpecExport)                          *)

\* the lengths the claim lists as converted
C21_Lengths ==
    {"diameter", "flute_length", "overall_length", "length_of_cut", "corner_radius",
     "tip_radius", "tip_flat", "shank_diameter", "pitch", "max_thread_length"}

\* v (ten-thousandths of an inch) is n (thousandths of a millimetre) / 25.4
\* rounded to 4 decimals: |v / 10000 - n / 25400| <= 0.00005
IsRounded(v, n) == 254 * v - 100 * n <= 127 /\ 100 * n - 254 * v <= 127

\* the keys a generator reads of a type, in the order it writes them
ExportedFields(t) == <<"diameter", "flute_length", "overall_length">> \o CsvTypeFields(t)

\* the text of the value exported for the k-th geometry field of export e
ExportedText(e, k) ==
    LET rows == exports[e].export_data.rows
    IN  IF exports[e].export_format = CSV
        THEN rows[2][IF k <= 3 THEN k + 3 ELSE k + 4].text
        ELSE rows[IF k <= 3 THEN k + 3 ELSE k + 4][2].text

\* C21: in an imperial export exactly the present non-null lengths are
\* replaced by value / 25.4 rounded to 4 decimals (25.4 becomes 1.0) and the
\* angles, the counts and every other key are exported unchanged; in a
\* metric export every exported value is the stored value.
C21_ConversionFrame ==
    \A e \in DOMAIN exports :
        LET tool  == hist[e]
            g     == tool.geometry
            c     == ExportGeometry(tool, exports[e].export_units).geometry
            keys  == ExportedFields(tool.type)
        IN  /\ \A f \in AllFields :
                  IF exports[e].export_units = IMPERIAL /\ f \in C21_Lengths /\ g[f].kind = "num"
                  THEN c[f].kind = "inch" /\ IsRounded(c[f].num, g[f].num)
                  ELSE c[f] = g[f]
            /\ \A k \in DOMAIN keys :
                  g[keys[k]].kind = "num" =>
                      ExportedText(e, k)
                          = IF c[keys[k]].kind = "inch" THEN FloatRepr(c[keys[k]].num, 4)
                            ELSE FloatRepr(g[keys[k]].num, 3)

\* an imperial export of a tool of diameter 25.4 holds 1.0, and an angle as
\* stored
C21_Witness ==
    \E e \in DOMAIN exports :
        /\ exports[e].export_units = IMPERIAL
        /\ hist[e].geometry["diameter"] = Num(25400)
        /\ ExportedText(e, 1) = "1.0"
        /\ hist[e].type = DRILL
        /\ ExportedText(e, 4) = "118.0"


\* the columns of the tabular format after the seven common ones:
\* <<header, geometry field>> (section 4.2)
C22_TypeColumns(t) ==
    IF t = END_MILL
    THEN << <<"Flute Count", "flute_count">>, <<"Helix Angle", "helix_angle">>,
            <<"Length of Cut", "length_of_cut">>, <<"Corner Radius", "corner_radius">> >>
    ELSE IF t = BALL_END_MILL
    THEN << <<"Flute Count", "flute_count">>, <<"Tip Radius", "tip_radius">> >>
    ELSE IF t = CHAMFER
    THEN << <<"Included Angle", "included_angle">>, <<"Tip Flat", "tip_flat">>,
            <<"Shank Diameter", "shank_diameter">> >>
    ELSE IF t = DRILL THEN << <<"Point Angle", "point_angle">> >>
    ELSE IF t = REAMER THEN << <<"Lead Angle", "lead_angle">> >>
    ELSE << <<"Pitch", "pitch">>, <<"Max Thread Length", "max_thread_length">> >>

\* <<column, header, geometry field>> of every column that holds a geometry
\* field
C22_GeometryColumns(t) ==
    << <<4, "Diameter", "diameter">>, <<5, "Flute Length", "flute_length">>,
       <<6, "Overall Length", "overall_length">> >>
    \o [k \in 1..Len(C22_TypeColumns(t)) |->
          <<7 + k, C22_TypeColumns(t)[k][1], C22_TypeColumns(t)[k][2]>>]

\* C22: a CSV export is exactly one header row and one data row of the same
\* number of columns, the 7 common ones and the type's own in matching
\* order, and the cell of a geometry field that is absent or null is empty.
C22_CsvShape ==
    \A e \in DOMAIN exports :
        exports[e].export_format = CSV =>
            LET rows == exports[e].export_data.rows
                tool == hist[e]
                cols == C22_GeometryColumns(tool.type)
            IN  /\ Len(rows) = 2
                /\ Len(rows[1]) = 7 + Len(C22_TypeColumns(tool.type))
                /\ Len(rows[2]) = Len(rows[1])
                /\ rows[1][1].text = "Tool Name" /\ rows[1][2].text = "Vendor"
                /\ rows[1][3].text = "Type" /\ rows[1][7].text = "Units"
                /\ rows[2][3].text = tool.type
                /\ rows[2][7].text = (IF exports[e].export_units = IMPERIAL THEN "in" ELSE "mm")
                /\ \A k \in DOMAIN cols :
                      /\ rows[1][cols[k][1]].text = cols[k][2]
                      /\ (rows[2][cols[k][1]].text = "")
                            <=> tool.geometry[cols[k][3]].kind \in {"absent", "null"}

\* a CSV export with an empty cell for a null field and one for an absent
\* field
C22_Witness ==
    \E e \in DOMAIN exports :
        /\ exports[e].export_format = CSV
        /\ \E f \in {"diameter", "flute_length", "overall_length"} :
              hist[e].geometry[f] = Null
        /\ \E k \in DOMAIN C22_GeometryColumns(hist[e].type) :
              /\ hist[e].geometry[C22_GeometryColumns(hist[e].type)[k][3]] = Absent
              /\ exports[e].export_data.rows[2][C22_GeometryColumns(hist[e].type)[k][1]].text = ""

-----------------------------------------------------------------------------
(* Properties of the tool store (Spec)                                     *)

\* C23: update_tool on an existing tool that is not deleted, with any subset
\* of name, vendor, geometry and limits supplied, succeeds, stores exactly
\* the supplied values and leaves every other field, id, type and
\* created_at unchanged, also when limits is supplied.
C23_PartialUpdate ==
    [][\A id \in ToolIds : \A upd \in UpdateInputs :
          (SelectLive(id) # <<>> /\ UpdateTool(id, upd)) =>
              /\ resp'.status = 200
              /\ tools'[id].name = (IF upd.name = <<>> THEN tools[id].name ELSE upd.name[1])
              /\ tools'[id].vendor = (IF upd.vendor = <<>> THEN tools[id].vendor ELSE upd.vendor[1])
              /\ tools'[id].geometry
                    = (IF upd.geometry = <<>> THEN tools[id].geometry ELSE upd.geometry[1])
              /\ tools'[id].limits = (IF upd.limits = <<>> THEN tools[id].limits ELSE upd.limits[1])
              /\ tools'[id].id = tools[id].id
              /\ tools'[id].type = tools[id].type
              /\ tools'[id].created_at = tools[id].created_at
              /\ tools'[id].is_deleted = tools[id].is_deleted]_vars

\* C24: tool rows are never removed and deletion is one-way: the stored ids
\* only grow, a delete changes nothing of a row but is_deleted (false to
\* true) and updated_at, no step sets is_deleted back to false, and the
\* tool_id of every export refers to a stored row.
C24_NeverRemoved ==
    /\ [](\A e \in DOMAIN exports : exports[e].tool_id \in DOMAIN tools)
    /\ [][\A id \in DOMAIN tools :
             /\ id \in DOMAIN tools'
             /\ tools'[id].id = tools[id].id
             /\ tools[id].is_deleted => tools'[id].is_deleted
             /\ (~tools[id].is_deleted /\ tools'[id].is_deleted) =>
                   /\ tools' = [tools EXCEPT ![id].is_deleted = TRUE,
                                             ![id].updated_at = tools'[id].updated_at]
                   /\ exports' = exports]_vars

\* a tool with an export has been deleted and is still stored, as deleted
C24_Witness ==
    \E e \in DOMAIN exports :
        /\ Deleted(exports[e].tool_id)
        /\ tools[exports[e].tool_id].updated_at > tools[exports[e].tool_id].created_at
        /\ resp.op = "get"
        /\ resp.id = exports[e].tool_id
        /\ resp.status = 404

\* C25: under every interleaving of an export request and a delete request
\* for one tool, no export record is created for a tool whose deletion is
\* already committed.
C25_NoExportAfterDelete ==
    [][Len(exports') > Len(exports) =>
          ~Deleted(exports'[Len(exports')].tool_id)]_vars

=============================================================================
